---- MODULE Spec2Model ----
(***************************************************************************)
(* State-machine model of the OverflowWc component                         *)
(* (src/src/item-overflow-v2.ts): a Lit element that measures its items    *)
(* in a hidden surface and shows the longest prefix that fits the width    *)
(* of its container.                                                       *)
(*                                                                         *)
(* The host is single threaded.  One step of the model is one run to       *)
(* completion: one microtask (a reactive update, a promise reaction), one  *)
(* macrotask (a ResizeObserver delivery, a timer) or one synchronous call  *)
(* of the caller (a property assignment, removal from the document).       *)
(***************************************************************************)
EXTENDS Integers, Sequences, FiniteSets, TLC

\* ---------------------------------------------------------------- bounds
MaxItems == 2
MaxItemChanges == 1
MaxWidth == 2
MaxTimers == 2
MaxBurst == 2
TickMs == 25
\* The fit alone is checked on wider inputs, in units of 10px: widths 0..FitMaxWidth,
\* up to FitMaxLen of them, against containers 0..FitMaxContainer.
FitMaxLen == 3
FitMaxWidth == 5
FitMaxContainer == 12

\* The quiet period of the debounce (setTimeout(..., 50)).
DebounceMs == 50

\* ------------------------------------------------------------ environment
\* Items are opaque to the component; "z" is an item that renders to nothing.
ItemIds == {"a", "z"}

\* Renderers the caller may inject; "none" is the null renderer.
Renderers == {"none", "r1"}

\* getBoundingClientRect().width of the span holding renderer(item, index).
RenderedWidth(r, it) ==
    IF r = "none" \/ it = "z" THEN 0 ELSE 1

RECURSIVE SeqsUpTo(_, _)
SeqsUpTo(S, n) ==
    IF n = 0 THEN {<<>>}
    ELSE LET shorter == SeqsUpTo(S, n - 1)
         IN  shorter \cup {Append(s, x) : s \in {t \in shorter : Len(t) = n - 1}, x \in S}

ItemSeqs == SeqsUpTo(ItemIds, MaxItems)

TimerIds == 1..MaxTimers

VARIABLES
    items,              \* @property items
    renderer,           \* @property renderer
    itemRefs,           \* itemRefs[i]: whether the ref of index i holds an element
    resizeObserver,     \* TRUE: a ResizeObserver is observing the container
    resizeTimeout,      \* the timer handle field, 0 for undefined
    measuredWidths,     \* @state measuredWidths
    measured,           \* @state measured
    visibleCount,       \* @state visibleCount
    isUpdatePending,    \* Lit: an update is enqueued and its promise unresolved
    changedProperties,  \* Lit: properties changed since the last update
    hasUpdated,         \* Lit: the first update has run
    microtasks,         \* the host's microtask queue
    updateWaiters,      \* reactions registered on the pending update promise
    dom,                \* what the last render committed
    connected,          \* the element is in the document
    containerWidth,     \* clientWidth of the parent while it is laid out
    timers,             \* timers[id]: ms left of a pending timer, -1 when none
    itemsVer,           \* history: number of item-sequence replacements so far
    domCurrent,         \* history: the last render ran after items was last replaced
    widthsCurrent,      \* history: measuredWidths was read from such a render
    inFlightAtTeardown, \* history: passes suspended at teardown that have not resumed yet
    sinceNotify,        \* history: ms since the last resize notification (capped)
    burst,              \* history: notifications since the last debounced recompute
    notifiedWidth,      \* history: container width at the last notification
    lastOp              \* history: the fit the last step ran, if any, the width it read
                        \* and, for a debounced one, the notifications it answers

vars == <<items, renderer, itemRefs, resizeObserver, resizeTimeout, measuredWidths,
          measured, visibleCount, isUpdatePending, changedProperties, hasUpdated,
          microtasks, updateWaiters, dom, connected, containerWidth, timers,
          itemsVer, domCurrent, widthsCurrent, inFlightAtTeardown, sinceNotify,
          burst, notifiedWidth, lastOp>>

\* ------------------------------------------------------------- helpers
Min(a, b) == IF a < b THEN a ELSE b
Max(a, b) == IF a > b THEN a ELSE b

\* this.parentElement?.clientWidth || 0: an element out of the document has no
\* laid-out parent, so the read gives 0.
ContainerWidthRead == IF connected THEN containerWidth ELSE 0

\* The loop with < for <=: an exact fit is turned away.
RECURSIVE FitLoopStrict(_, _, _, _, _)
FitLoopStrict(widths, W, i, sum, count) ==
    IF i > Len(widths) THEN count
    ELSE IF sum + widths[i] < W
         THEN FitLoopStrict(widths, W, i + 1, sum + widths[i], count + 1)
         ELSE count

\* The loop without its break: an item that does not fit is skipped and the scan
\* goes on.
RECURSIVE FitLoopSkip(_, _, _, _, _)
FitLoopSkip(widths, W, i, sum, count) ==
    IF i > Len(widths) THEN count
    ELSE IF sum + widths[i] <= W
         THEN FitLoopSkip(widths, W, i + 1, sum + widths[i], count + 1)
         ELSE FitLoopSkip(widths, W, i + 1, sum, count)

\* The loop of computeVisibleForCurrentWidth from index i (1-based) on, with the
\* running sum and count: admit while sum + w <= containerWidth, break otherwise.
RECURSIVE FitLoop(_, _, _, _, _)
FitLoop(widths, W, i, sum, count) ==
    IF i > Len(widths) THEN count
    ELSE IF sum + widths[i] <= W
         THEN FitLoop(widths, W, i + 1, sum + widths[i], count + 1)
         ELSE count

\* The fit with its running sum kept from call to call (never reset to 0): the sum
\* starts at the count the previous call left.
FitCountCarried(widths, W) == FitLoop(widths, W, 1, visibleCount, 0)

\* The count computeVisibleForCurrentWidth computes.
FitCount(widths, W) == FitLoop(widths, W, 1, 0, 0)

\* ensureRefs: one fresh, empty ref for every index that has none; never shrinks.
EnsureRefs(refs, its) ==
    [i \in 1..Max(Len(refs), Len(its)) |-> IF i <= Len(refs) THEN refs[i] ELSE FALSE]

\* The visible branch without its slice: every item is mapped, whatever the count.
IndexedAll(its, n) == [i \in 1..Len(its) |-> [item |-> its[i], index |-> i - 1]]

\* items.map((item, index) => ...) over the first n items: each with its index.
Indexed(its, n) == [i \in 1..Min(n, Len(its)) |-> [item |-> its[i], index |-> i - 1]]

\* render() with its first two tests in the other order: an unmeasured component
\* maps its items through the renderer before the renderer is tested.
RenderOutputMeasuredFirst(r, meas, vc, its) ==
    IF ~meas THEN [kind |-> "hidden", shown |-> Indexed(its, Len(its)), by |-> r]
    ELSE IF r = "none" THEN [kind |-> "placeholder", shown |-> <<>>, by |-> r]
    ELSE IF vc = 0 THEN [kind |-> "empty", shown |-> <<>>, by |-> r]
    ELSE [kind |-> "visible", shown |-> Indexed(its, vc), by |-> r]

\* render(): the placeholder, the hidden measurement surface, nothing, or the
\* visible prefix.
RenderOutput(r, meas, vc, its) ==
    IF r = "none" THEN [kind |-> "placeholder", shown |-> <<>>, by |-> r]
    ELSE IF ~meas THEN [kind |-> "hidden", shown |-> Indexed(its, Len(its)), by |-> r]
    ELSE IF vc = 0 THEN [kind |-> "empty", shown |-> <<>>, by |-> r]
    ELSE [kind |-> "visible", shown |-> Indexed(its, vc), by |-> r]

\* The ref directive after a commit: ${ref(this.itemRefs[index])} binds the span of
\* index i when the ref existed as render() ran and the part is connected; the
\* refs of spans that were removed (or never rendered) hold no element.
CommitRefs(refs, d, conn) ==
    [i \in 1..Len(refs) |-> conn /\ d.kind = "hidden" /\ i <= Len(d.shown)]

\* The widths measureAllItems reads: the bound element's width, or 0.
MeasureWidths(its, refs, d) ==
    [i \in 1..Len(its) |->
        IF i <= Len(refs) /\ refs[i] /\ i <= Len(d.shown)
        THEN RenderedWidth(d.by, d.shown[i].item)
        ELSE 0]

NoOp == [op |-> "none", W |-> -1, n |-> 0]

Op(name, w, k) == [op |-> name, W |-> w, n |-> k]

\* The keys of changedProperties the component reads: updated() tests has("items")
\* and nothing else, so the other keys are not recorded.
PropertyNames == {"items"}

\* The reactions a requestUpdate() adds to the microtask queue: the update itself,
\* unless one is pending already.
Requested(pending) == IF pending THEN <<>> ELSE <<"update">>

\* clearTimeout(handle) followed by window.setTimeout(cb, 50): the timer of the
\* handle is cancelled and a new timer with the full quiet period is started.
FreshTimer(tm) == CHOOSE id \in TimerIds : tm[id] = -1 /\ \A j \in TimerIds : tm[j] = -1 => id <= j
ClearTimeout(tm, handle) == IF handle \in TimerIds THEN [tm EXCEPT ![handle] = -1] ELSE tm
\* onContainerResize without its clearTimeout: the earlier timer keeps running.
RescheduledNoClear(tm, handle) == [tm EXCEPT ![FreshTimer(tm)] = DebounceMs]

Rescheduled(tm, handle) ==
    LET cleared == ClearTimeout(tm, handle)
    IN  [cleared EXCEPT ![FreshTimer(cleared)] = DebounceMs]

\* The reactions of an update whose every run starts firstUpdated's work again
\* (the pass and the subscription set up in updated instead of firstUpdated).
UpdateReactionsEveryUpdate(first, itemsChanged, invalidate) ==
    <<"measureResumeFirst">>
    \o (IF invalidate THEN <<"update">> ELSE <<>>)
    \o (IF itemsChanged /\ ~invalidate THEN <<"measureStart">> ELSE <<>>)

\* The promise of an update resolves as the update ends; these are the reactions
\* firstUpdated and updated registered on it, in order: the pass firstUpdated
\* started; the next update, when updated changed measured; the callback updated
\* chained, when updateComplete was still this update's promise.
UpdateReactions(first, itemsChanged, invalidate) ==
    (IF first THEN <<"measureResumeFirst">> ELSE <<>>)
    \o (IF invalidate THEN <<"update">> ELSE <<>>)
    \o (IF itemsChanged /\ ~invalidate THEN <<"measureStart">> ELSE <<>>)

\* updated without its updateComplete.then(...): no pass follows the invalidation.
NoUpdateWaiters(invalidate) == <<>>

\* The reactions on the promise of the update that updated requested: the callback
\* it chained on updateComplete.
NextUpdateWaiters(invalidate) == IF invalidate THEN <<"measureStart">> ELSE <<>>

\* The number of measurement passes suspended at their await in a task list.
RECURSIVE Suspended(_)
Suspended(tasks) ==
    IF tasks = <<>> THEN 0
    ELSE (IF Head(tasks) \in {"measureResume", "measureResumeFirst"} THEN 1 ELSE 0)
         + Suspended(Tail(tasks))

TypeOK ==
    /\ items \in ItemSeqs
    /\ renderer \in Renderers
    /\ itemRefs \in SeqsUpTo(BOOLEAN, MaxItems)
    /\ resizeObserver \in BOOLEAN
    /\ resizeTimeout \in 0..MaxTimers
    /\ measuredWidths \in SeqsUpTo(0..2, MaxItems)
    /\ measured \in BOOLEAN
    /\ visibleCount \in 0..MaxItems
    /\ isUpdatePending \in BOOLEAN
    /\ changedProperties \subseteq PropertyNames
    /\ hasUpdated \in BOOLEAN
    /\ connected \in BOOLEAN
    /\ containerWidth \in 0..MaxWidth
    /\ timers \in [TimerIds -> -1..DebounceMs]
    /\ itemsVer \in 0..MaxItemChanges
    /\ burst \in 0..MaxBurst
    /\ inFlightAtTeardown \in 0..3

\* ---------------------------------------------------------------- Init
\* The element has been constructed, given its properties and connected: Lit has
\* enqueued the first update, with every initialised property marked changed.
Init ==
    /\ items \in ItemSeqs
    /\ renderer \in Renderers
    /\ itemRefs = <<>>
    /\ resizeObserver = FALSE
    /\ resizeTimeout = 0
    /\ measuredWidths = <<>>
    /\ measured = FALSE
    /\ visibleCount = 0
    /\ isUpdatePending = TRUE
    /\ changedProperties = PropertyNames
    /\ hasUpdated = FALSE
    /\ microtasks = <<"update">>
    /\ updateWaiters = <<>>
    /\ dom = [kind |-> "none", shown |-> <<>>, by |-> "none"]
    /\ connected = TRUE
    /\ containerWidth \in 0..MaxWidth
    /\ timers = [id \in TimerIds |-> -1]
    /\ itemsVer = 0
    /\ widthsCurrent = FALSE
    /\ sinceNotify = DebounceMs
    /\ burst = 0
    /\ notifiedWidth = -1
    /\ lastOp = NoOp
    /\ domCurrent = FALSE
    /\ inFlightAtTeardown = 0

\* --------------------------------------------------------- caller's calls
\* el.items = s: a new sequence reference; Lit marks the property and enqueues
\* an update.
SetItems ==
    \E s \in ItemSeqs :
        /\ itemsVer < MaxItemChanges
        /\ items' = s
        /\ itemsVer' = itemsVer + 1
        /\ domCurrent' = FALSE
        /\ widthsCurrent' = FALSE
        /\ changedProperties' = changedProperties \cup {"items"}
        /\ isUpdatePending' = TRUE
        /\ microtasks' = microtasks \o Requested(isUpdatePending)
        /\ lastOp' = NoOp
        /\ UNCHANGED <<renderer, itemRefs, resizeObserver, resizeTimeout, measuredWidths,
                       measured, visibleCount, hasUpdated, updateWaiters, dom, connected,
                       containerWidth, timers, inFlightAtTeardown, sinceNotify,
                       burst, notifiedWidth>>

\* el.renderer = r handled as a change of items: the update that follows finds
\* "items" among the changed properties.
SetRendererMarksItems ==
    \E r \in Renderers :
        /\ r # renderer
        /\ renderer' = r
        /\ changedProperties' = changedProperties \cup {"items"}
        /\ isUpdatePending' = TRUE
        /\ microtasks' = microtasks \o Requested(isUpdatePending)
        /\ lastOp' = NoOp
        /\ UNCHANGED <<items, itemRefs, resizeObserver, resizeTimeout, measuredWidths,
                       measured, visibleCount, hasUpdated, updateWaiters, dom, connected,
                       containerWidth, timers, itemsVer, domCurrent,
                       widthsCurrent, inFlightAtTeardown, sinceNotify, burst, notifiedWidth>>

\* el.renderer = r, for a renderer other than the current one (or null).
SetRenderer ==
    \E r \in Renderers :
        /\ r # renderer
        /\ renderer' = r
        /\ UNCHANGED changedProperties
        /\ isUpdatePending' = TRUE
        /\ microtasks' = microtasks \o Requested(isUpdatePending)
        /\ lastOp' = NoOp
        /\ UNCHANGED <<items, itemRefs, resizeObserver, resizeTimeout, measuredWidths,
                       measured, visibleCount, hasUpdated, updateWaiters, dom, connected,
                       containerWidth, timers, itemsVer, domCurrent,
                       widthsCurrent, inFlightAtTeardown, sinceNotify, burst, notifiedWidth>>

\* disconnectedCallback: Lit disconnects the rendered parts (every ref loses its
\* element), the observer is disconnected if there is one, the timer of the handle
\* is cleared if the handle is set (the handle itself is kept).
Disconnect ==
    /\ connected
    /\ connected' = FALSE
    /\ itemRefs' = [i \in 1..Len(itemRefs) |-> FALSE]
    /\ resizeObserver' = FALSE
    /\ timers' = IF resizeTimeout # 0 THEN ClearTimeout(timers, resizeTimeout) ELSE timers
    /\ inFlightAtTeardown' = Suspended(microtasks \o updateWaiters)
    /\ lastOp' = NoOp
    /\ UNCHANGED <<items, renderer, resizeTimeout, measuredWidths, measured, visibleCount,
                   isUpdatePending, changedProperties, hasUpdated, microtasks,
                   updateWaiters, dom, containerWidth, itemsVer, domCurrent, widthsCurrent,
                   sinceNotify, burst, notifiedWidth>>

\* ------------------------------------------------------------ microtasks
\* One reactive update: render() and commit, then firstUpdated (the first time)
\* and updated.  firstUpdated calls ensureRefs and starts a measurement pass, which
\* suspends on this update's promise.  updated, when items changed, sets measured
\* to false (a new update is requested only if that changes it), calls ensureRefs
\* and chains a measurement pass on updateComplete: the promise of the update just
\* requested, or of this one.  The promise of this update then resolves and its
\* reactions are queued in the order they were registered.
PerformUpdate ==
    /\ microtasks # <<>> /\ Head(microtasks) = "update"
    /\ LET out == RenderOutput(renderer, measured, visibleCount, items)
           first == ~hasUpdated
           itemsChanged == "items" \in changedProperties
           invalidate == itemsChanged /\ measured
           committed == CommitRefs(itemRefs, out, connected)
       IN  /\ dom' = out
           /\ itemRefs' = IF first \/ itemsChanged THEN EnsureRefs(committed, items)
                          ELSE committed
           /\ hasUpdated' = TRUE
           /\ measured' = IF itemsChanged THEN FALSE ELSE measured
           /\ isUpdatePending' = invalidate
           /\ changedProperties' = {}
           /\ microtasks' = Tail(microtasks) \o updateWaiters
                             \o UpdateReactions(first, itemsChanged, invalidate)
           /\ updateWaiters' = NextUpdateWaiters(invalidate)
    /\ domCurrent' = TRUE
    /\ lastOp' = NoOp
    /\ UNCHANGED <<items, renderer, resizeObserver, resizeTimeout, measuredWidths,
                   visibleCount, connected, containerWidth, timers, itemsVer,
                   widthsCurrent, inFlightAtTeardown, sinceNotify, burst, notifiedWidth>>

\* The callback chained in updated: measureAllItems() runs to its await of
\* updateComplete, which is pending exactly while an update is.
MeasureStart ==
    /\ microtasks # <<>> /\ Head(microtasks) = "measureStart"
    /\ IF isUpdatePending
       THEN /\ updateWaiters' = Append(updateWaiters, "measureResume")
            /\ microtasks' = Tail(microtasks)
       ELSE /\ microtasks' = Append(Tail(microtasks), "measureResume")
            /\ UNCHANGED updateWaiters
    /\ lastOp' = NoOp
    /\ UNCHANGED <<items, renderer, itemRefs, resizeObserver, resizeTimeout,
                   measuredWidths, measured, visibleCount, isUpdatePending,
                   changedProperties, hasUpdated, dom, connected, containerWidth, timers,
                   itemsVer, domCurrent, widthsCurrent, inFlightAtTeardown,
                   sinceNotify, burst, notifiedWidth>>

\* measureAllItems with the fit called before the widths are stored: the fit reads
\* the widths of the pass before.
MeasureResumeFitFirst(task) ==
    /\ microtasks # <<>> /\ Head(microtasks) = task
    /\ LET widths == MeasureWidths(items, itemRefs, dom)
           W == ContainerWidthRead
           count == FitCount(measuredWidths, W)
       IN  /\ measuredWidths' = widths
           /\ measured' = TRUE
           /\ visibleCount' = count
           /\ UNCHANGED changedProperties
           /\ lastOp' = Op("measure", W, 0)
    /\ isUpdatePending' = TRUE
    /\ microtasks' = Tail(microtasks) \o Requested(isUpdatePending)
                     \o (IF task = "measureResumeFirst" THEN <<"firstUpdatedResume">> ELSE <<>>)
    /\ widthsCurrent' = domCurrent
    /\ inFlightAtTeardown' = Max(0, inFlightAtTeardown - 1)
    /\ UNCHANGED <<items, renderer, itemRefs, resizeObserver, resizeTimeout, hasUpdated,
                   updateWaiters, dom, connected, containerWidth, timers, itemsVer,
                   domCurrent, sinceNotify, burst, notifiedWidth>>

\* measureAllItems after its await: read a width per item, store the widths, set
\* measured, compute the fit.  measuredWidths is a new array, so an update is
\* always requested.  The pass started by firstUpdated resumes firstUpdated next.
MeasureResume(task) ==
    /\ microtasks # <<>> /\ Head(microtasks) = task
    /\ LET widths == MeasureWidths(items, itemRefs, dom)
           W == ContainerWidthRead
           count == FitCount(widths, W)
       IN  /\ measuredWidths' = widths
           /\ measured' = TRUE
           /\ visibleCount' = count
           /\ UNCHANGED changedProperties
           /\ lastOp' = Op("measure", W, 0)
    /\ isUpdatePending' = TRUE
    /\ microtasks' = Tail(microtasks) \o Requested(isUpdatePending)
                     \o (IF task = "measureResumeFirst" THEN <<"firstUpdatedResume">> ELSE <<>>)
    /\ widthsCurrent' = domCurrent
    /\ inFlightAtTeardown' = Max(0, inFlightAtTeardown - 1)
    /\ UNCHANGED <<items, renderer, itemRefs, resizeObserver, resizeTimeout, hasUpdated,
                   updateWaiters, dom, connected, containerWidth, timers, itemsVer, domCurrent, sinceNotify, burst, notifiedWidth>>

\* firstUpdated after its await: create the ResizeObserver unless there is one.
FirstUpdatedResume ==
    /\ microtasks # <<>> /\ Head(microtasks) = "firstUpdatedResume"
    /\ microtasks' = Tail(microtasks)
    /\ resizeObserver' = TRUE
    /\ lastOp' = NoOp
    /\ UNCHANGED <<items, renderer, itemRefs, resizeTimeout, measuredWidths, measured,
                   visibleCount, isUpdatePending, changedProperties, hasUpdated,
                   updateWaiters, dom, connected, containerWidth, timers, itemsVer,
                   domCurrent, widthsCurrent, inFlightAtTeardown, sinceNotify, burst,
                   notifiedWidth>>

\* ------------------------------------------------------------ macrotasks
\* The observer delivers: its first delivery, or the container has been laid out
\* anew, w wide (the same width when only its height changed).  The callback runs
\* onContainerResize.
Resize ==
    \E w \in 0..MaxWidth :
        /\ microtasks = <<>>
        /\ connected /\ resizeObserver
        /\ burst < MaxBurst
        /\ \E id \in TimerIds : timers[id] = -1
        /\ containerWidth' = w
        /\ timers' = Rescheduled(timers, resizeTimeout)
        /\ resizeTimeout' = FreshTimer(ClearTimeout(timers, resizeTimeout))
        /\ burst' = burst + 1
        /\ sinceNotify' = 0
        /\ notifiedWidth' = w
        /\ lastOp' = NoOp
        /\ UNCHANGED <<items, renderer, itemRefs, resizeObserver, measuredWidths, measured,
                       visibleCount, isUpdatePending, changedProperties, hasUpdated,
                       microtasks, updateWaiters, dom, connected, itemsVer, domCurrent,
                       widthsCurrent, inFlightAtTeardown>>

\* Time passes while a timer is running.
Tick ==
    /\ microtasks = <<>>
    /\ \E id \in TimerIds : timers[id] > 0
    /\ timers' = [id \in TimerIds |-> IF timers[id] > 0 THEN Max(0, timers[id] - TickMs)
                                      ELSE timers[id]]
    /\ sinceNotify' = Min(DebounceMs, sinceNotify + TickMs)
    /\ lastOp' = NoOp
    /\ UNCHANGED <<items, renderer, itemRefs, resizeObserver, resizeTimeout,
                   measuredWidths, measured, visibleCount, isUpdatePending,
                   changedProperties, hasUpdated, microtasks, updateWaiters, dom,
                   connected, containerWidth, itemsVer, domCurrent,
                   widthsCurrent, inFlightAtTeardown, burst, notifiedWidth>>

\* The timer callback re-measuring: it reads the widths again and stores them
\* before it computes the fit.
TimerFireRemeasures ==
    \E id \in TimerIds :
        /\ microtasks = <<>>
        /\ timers[id] = 0
        /\ LET W == ContainerWidthRead
               widths == MeasureWidths(items, itemRefs, dom)
               count == FitCount(widths, W)
           IN  /\ measuredWidths' = widths
               /\ visibleCount' = count
               /\ UNCHANGED changedProperties
               /\ isUpdatePending' = TRUE
               /\ microtasks' = microtasks \o Requested(isUpdatePending)
               /\ lastOp' = Op("timer", W, burst)
        /\ timers' = [timers EXCEPT ![id] = -1]
        /\ resizeTimeout' = 0
        /\ burst' = 0
        /\ UNCHANGED <<items, renderer, itemRefs, resizeObserver, measured,
                       hasUpdated, updateWaiters, dom, connected, containerWidth,
                       itemsVer, domCurrent, widthsCurrent, inFlightAtTeardown,
                       sinceNotify, notifiedWidth>>

\* A due timer runs the callback of onContainerResize: compute the fit, then clear
\* the handle.
TimerFire ==
    \E id \in TimerIds :
        /\ microtasks = <<>>
        /\ timers[id] = 0
        /\ LET W == ContainerWidthRead
               count == FitCount(measuredWidths, W)
           IN  /\ visibleCount' = count
               /\ UNCHANGED changedProperties
               /\ isUpdatePending' = (isUpdatePending \/ count # visibleCount)
               /\ microtasks' = IF count = visibleCount THEN microtasks
                                ELSE microtasks \o Requested(isUpdatePending)
               /\ lastOp' = Op("timer", W, burst)
        /\ timers' = [timers EXCEPT ![id] = -1]
        /\ resizeTimeout' = 0
        /\ burst' = 0
        /\ UNCHANGED <<items, renderer, itemRefs, resizeObserver, measuredWidths, measured,
                       hasUpdated, updateWaiters, dom, connected, containerWidth,
                       itemsVer, domCurrent, widthsCurrent, inFlightAtTeardown,
                       sinceNotify, notifiedWidth>>

Next ==
    \/ SetItems
    \/ SetRenderer
    \/ Disconnect
    \/ PerformUpdate
    \/ MeasureStart
    \/ MeasureResume("measureResume")
    \/ MeasureResume("measureResumeFirst")
    \/ FirstUpdatedResume
    \/ Resize
    \/ Tick
    \/ TimerFire

Spec == Init /\ [][Next]_vars

\* The host runs every queued microtask, lets time pass and fires due timers.
RunMicrotask ==
    \/ PerformUpdate
    \/ MeasureStart
    \/ MeasureResume("measureResume")
    \/ MeasureResume("measureResumeFirst")
    \/ FirstUpdatedResume

LiveSpec == Spec /\ WF_vars(RunMicrotask) /\ WF_vars(Tick) /\ WF_vars(TimerFire)

\* ----------------------------------------------- the fit on its own inputs
\* computeVisibleForCurrentWidth applied to arbitrary cached widths and container
\* widths, with and without a laid-out parent.
FitInit ==
    /\ measuredWidths \in SeqsUpTo(0..FitMaxWidth, FitMaxLen)
    /\ containerWidth \in 0..FitMaxContainer
    /\ connected \in BOOLEAN
    /\ items = [i \in 1..Len(measuredWidths) |-> "a"]
    /\ renderer = "r1"
    /\ itemRefs = [i \in 1..Len(measuredWidths) |-> FALSE]
    /\ resizeObserver = FALSE
    /\ resizeTimeout = 0
    /\ measured = TRUE
    /\ visibleCount = 0
    /\ isUpdatePending = FALSE
    /\ changedProperties = {}
    /\ hasUpdated = TRUE
    /\ microtasks = <<>>
    /\ updateWaiters = <<>>
    /\ dom = [kind |-> "empty", shown |-> <<>>, by |-> "r1"]
    /\ timers = [id \in TimerIds |-> -1]
    /\ itemsVer = 0
    /\ widthsCurrent = TRUE
    /\ sinceNotify = DebounceMs
    /\ burst = 0
    /\ notifiedWidth = -1
    /\ lastOp = NoOp
    /\ domCurrent = TRUE
    /\ inFlightAtTeardown = 0

FitFrame ==
    UNCHANGED <<items, renderer, itemRefs, resizeObserver, resizeTimeout, measuredWidths,
                measured, isUpdatePending, changedProperties, hasUpdated, microtasks,
                updateWaiters, dom, connected, timers, itemsVer, domCurrent,
                widthsCurrent, inFlightAtTeardown, sinceNotify, burst, notifiedWidth>>

\* computeVisibleForCurrentWidth at the current container width.
FitCompute ==
    /\ visibleCount' = FitCount(measuredWidths, ContainerWidthRead)
    /\ lastOp' = Op("fit", ContainerWidthRead, 0)
    /\ UNCHANGED containerWidth
    /\ FitFrame

\* The container gets another width and the fit is computed against it.
FitResize ==
    \E w \in 0..FitMaxContainer :
        /\ w # containerWidth
        /\ containerWidth' = w
        /\ visibleCount' = FitCount(measuredWidths, IF connected THEN w ELSE 0)
        /\ lastOp' = Op("fit", IF connected THEN w ELSE 0, 0)
        /\ FitFrame

FitNext == FitCompute \/ FitResize

FitSpec == FitInit /\ [][FitNext]_vars

\* ================================================================ claims
\* The sum of the first k widths.
RECURSIVE PrefixSum(_, _)
PrefixSum(widths, k) == IF k = 0 THEN 0 ELSE PrefixSum(widths, k - 1) + widths[k]

\* The length of the leading run of zero widths.
RECURSIVE LeadingZeros(_)
LeadingZeros(widths) ==
    IF widths = <<>> \/ Head(widths) # 0 THEN 0 ELSE 1 + LeadingZeros(Tail(widths))

\* The last step ran computeVisibleForCurrentWidth (lastOp.W is the width it read).
FitRan == lastOp.op \in {"fit", "measure", "timer"}

\* C1: right after a fit, visibleCount is the largest k whose first k widths sum to
\* at most the container width read, equality included.
C1_FitIsLargestPrefix ==
    FitRan =>
        /\ visibleCount \in 0..Len(measuredWidths)
        /\ PrefixSum(measuredWidths, visibleCount) <= lastOp.W
        /\ \A k \in 0..Len(measuredWidths) :
              PrefixSum(measuredWidths, k) <= lastOp.W => k <= visibleCount

\* C1 witness: widths [50,30,40] (in units of 10px) fitted exactly into 80 gave 2.
C1_Witness ==
    /\ lastOp = Op("fit", 8, 0)
    /\ measuredWidths = <<5, 3, 4>>
    /\ visibleCount = 2

\* C2 as stated: a fit against width 0, or of no widths, gives visibleCount 0.
C2_ZeroWidthGivesZero ==
    (FitRan /\ (lastOp.W = 0 \/ measuredWidths = <<>>)) => visibleCount = 0

\* C2 amended: a fit of no widths gives 0; a fit against width 0 gives the number
\* of leading zero-width items, which is 0 when the first width is positive.
C2_ZeroWidthGivesLeadingZeros ==
    /\ (FitRan /\ measuredWidths = <<>>) => visibleCount = 0
    /\ (FitRan /\ lastOp.W = 0) => visibleCount = LeadingZeros(measuredWidths)

\* C2 witness: no parent, so the width read is 0, and a zero-width item leads.
C2_Witness ==
    /\ lastOp = Op("fit", 0, 0)
    /\ ~connected
    /\ containerWidth > 0
    /\ measuredWidths = <<0, 3>>
    /\ visibleCount = 1

\* C3 as stated: in every reachable state 0 <= visibleCount <= items.length.
C3_VisibleCountWithinItems == visibleCount \in 0..Len(items)

\* C4 as stated: whenever measured is true, measuredWidths is as long as items.
C4_WidthsAlignedWhenMeasured == measured => Len(measuredWidths) = Len(items)

\* C5 as stated: once the item sequence has been replaced, every fit runs with
\* measured true and on widths read from a render of the current sequence.
C5_FitReadsCurrentWidths ==
    (itemsVer > 0 /\ FitRan) => (measured /\ widthsCurrent)

\* C6 as stated: a pass that completes (with a renderer, in the document) records
\* for every index the width of that item as rendered in the hidden surface.
C6_PassRecordsRenderedWidths ==
    (lastOp.op = "measure" /\ renderer # "none" /\ connected) =>
        \A i \in 1..Len(items) : measuredWidths[i] = RenderedWidth(renderer, items[i])

\* C7 as stated: a pass that was suspended when teardown happened writes none of
\* measuredWidths, measured and visibleCount when it resumes.
C7_TeardownDiscardsPass ==
    [][(inFlightAtTeardown > 0 /\ lastOp'.op = "measure")
          => UNCHANGED <<measuredWidths, measured, visibleCount>>]_vars

\* C8 as stated: after teardown there is no active subscription and no pending
\* timer.
C8_TeardownReleasesAll ==
    ~connected => (~resizeObserver /\ \A id \in TimerIds : timers[id] = -1)

PendingTimers == {id \in TimerIds : timers[id] >= 0}

\* C9: a burst of notifications is answered by one recomputation: at most one
\* timer is pending, and one is (while connected) exactly when notifications are
\* unanswered; its time left is the quiet period less the time since the last
\* notification; the recomputation runs when that period has elapsed, reads the
\* width of the last notification and leaves no timer behind.
C9_DebounceCoalesces ==
    /\ Cardinality(PendingTimers) <= 1
    /\ PendingTimers # {} => burst > 0
    /\ (connected /\ burst > 0) => PendingTimers # {}
    /\ \A id \in PendingTimers : timers[id] >= DebounceMs - sinceNotify
    /\ lastOp.op = "timer" =>
          /\ lastOp.n >= 1
          /\ sinceNotify >= DebounceMs
          /\ lastOp.W = notifiedWidth
          /\ burst = 0
          /\ PendingTimers = {}
          /\ resizeTimeout = 0

\* C9 witness: two notifications (the container going to 2, then to 1) answered by
\* one recomputation against width 1, which admits one of two items 1 wide.
C9_Witness ==
    /\ lastOp = Op("timer", 1, 2)
    /\ measuredWidths = <<1, 1>>
    /\ visibleCount = 1

\* The state a completed measurement leaves: widths aligned with items, and
\* visibleCount the fit against the container unless a debounced recomputation is
\* still due.
Fitted ==
    /\ measured
    /\ Len(measuredWidths) = Len(items)
    /\ PendingTimers = {} => visibleCount = FitCount(measuredWidths, ContainerWidthRead)

\* C10: a replaced item sequence makes measured false, and once item changes have
\* stopped an instance that is not torn down reaches Fitted and stays there.
C10_ChangeLeadsToFitted ==
    /\ ("items" \in changedProperties /\ itemsVer > 0) ~> ~measured
    /\ <>[](itemsVer > 0 => (~connected \/ Fitted))

\* C10 witness: after a replacement by two items 1 wide, the instance is at rest,
\* measured, with both widths recorded and both items fitting.
C10_Witness ==
    /\ itemsVer > 0 /\ connected /\ microtasks = <<>>
    /\ items = <<"a", "a">>
    /\ measured /\ measuredWidths = <<1, 1>>
    /\ containerWidth = 2 /\ visibleCount = 2

\* C11: an update that runs render() with a renderer, measured true and
\* visibleCount > 0 commits the visible surface: the items at indices
\* 0..visibleCount-1 of the current sequence (all of them when it is shorter), in
\* order, each rendered by the current renderer with the item and its own index,
\* and no item at an index >= visibleCount.
C11_VisibleRenderIsPrefix ==
    [][(PerformUpdate /\ renderer # "none" /\ measured /\ visibleCount > 0) =>
          /\ dom'.kind = "visible"
          /\ dom'.by = renderer
          /\ Len(dom'.shown) = Min(visibleCount, Len(items))
          /\ \A i \in 1..Len(dom'.shown) :
                dom'.shown[i] = [item |-> items[i], index |-> i - 1]
          /\ \A i \in 1..Len(dom'.shown) : dom'.shown[i].index < visibleCount]_vars

\* C11 witness: of two items 1 wide in a container 1 wide, the first is committed
\* visibly, rendered by r1 with index 0, and no update is pending.
C11_Witness ==
    /\ renderer = "r1" /\ measured /\ ~isUpdatePending
    /\ items = <<"a", "a">> /\ measuredWidths = <<1, 1>>
    /\ visibleCount = 1
    /\ dom = [kind |-> "visible", shown |-> <<[item |-> "a", index |-> 0]>>, by |-> "r1"]

\* C12: render() always returns one of its four outputs, chosen in this order:
\* without a renderer the placeholder, with no item rendered, whatever measured
\* and visibleCount are; otherwise, while measured is false, the hidden surface
\* holding every item of the sequence and nothing visible; otherwise, when
\* visibleCount is 0, nothing.
C12_RenderDispatch ==
    [][PerformUpdate =>
          /\ dom'.kind \in {"placeholder", "hidden", "empty", "visible"}
          /\ renderer = "none" =>
                (dom'.kind = "placeholder" /\ dom'.shown = <<>>)
          /\ (renderer # "none" /\ ~measured) =>
                /\ dom'.kind = "hidden"
                /\ dom'.by = renderer
                /\ Len(dom'.shown) = Len(items)
                /\ \A i \in 1..Len(items) :
                      dom'.shown[i] = [item |-> items[i], index |-> i - 1]
          /\ (renderer # "none" /\ measured /\ visibleCount = 0) =>
                (dom'.kind = "empty" /\ dom'.shown = <<>>)]_vars

\* C12 witness: without a renderer the placeholder is committed although the
\* component is measured and counts two visible items.
C12_Witness ==
    /\ renderer = "none" /\ hasUpdated /\ ~isUpdatePending
    /\ measured /\ visibleCount = 2 /\ items = <<"a", "a">>
    /\ dom = [kind |-> "placeholder", shown |-> <<>>, by |-> "none"]

\* C13: of two consecutive fits on the same widths, the one against the wider
\* container never gives the smaller visibleCount, and two against the same
\* container width give the same visibleCount.
C13_FitMonotoneIdempotent ==
    [][(FitRan /\ lastOp'.op = "fit" /\ measuredWidths' = measuredWidths) =>
          /\ lastOp.W <= lastOp'.W => visibleCount <= visibleCount'
          /\ lastOp.W >= lastOp'.W => visibleCount >= visibleCount'
          /\ lastOp.W = lastOp'.W => visibleCount = visibleCount']_vars

\* C13 witness: widths [10,30,20] fitted against 40 admit the first two; the
\* container has been narrower or wider before (the fit starts from count 0).
C13_Witness ==
    /\ lastOp = Op("fit", 4, 0)
    /\ measuredWidths = <<1, 3, 2>>
    /\ visibleCount = 2

\* C14 as stated: the second of the two passes of the first render (the one
\* updated chained; items has not been replaced) reads the hidden surface, not what
\* was committed after the first pass set measured, and leaves measured true and
\* for every item the width of that item as rendered by the renderer.
C14_SecondPassKeepsRenderedWidths ==
    [][(MeasureResume("measureResume") /\ itemsVer = 0 /\ connected
           /\ renderer # "none" /\ dom.by = renderer) =>
          /\ dom.kind = "hidden"
          /\ measured'
          /\ measuredWidths' = [i \in 1..Len(items) |-> RenderedWidth(renderer, items[i])]]_vars

\* C15: the state a measurement pass leaves has measured true, one width for
\* every item, and the visibleCount of one fit run on those widths: the largest
\* prefix of the widths just stored that fits the container width the pass read.
C15_PassMeasuresAllThenFits ==
    lastOp.op = "measure" =>
        /\ measured
        /\ Len(measuredWidths) = Len(items)
        /\ visibleCount \in 0..Len(measuredWidths)
        /\ PrefixSum(measuredWidths, visibleCount) <= lastOp.W
        /\ \A k \in 0..Len(measuredWidths) :
              PrefixSum(measuredWidths, k) <= lastOp.W => k <= visibleCount

\* C15 witness: a pass has just stored widths [1,1] and its fit, against a
\* container 1 wide, admitted the first item only.
C15_Witness ==
    /\ lastOp = Op("measure", 1, 0)
    /\ items = <<"a", "a">>
    /\ measured /\ measuredWidths = <<1, 1>>
    /\ visibleCount = 1

\* The measurement passes started and not finished: queued or suspended.
RECURSIVE Passes(_)
Passes(tasks) ==
    IF tasks = <<>> THEN 0
    ELSE (IF Head(tasks) \in {"measureStart", "measureResume", "measureResumeFirst"}
          THEN 1 ELSE 0) + Passes(Tail(tasks))

\* C16: a resize notification and the debounced recomputation leave items,
\* renderer, measured, measuredWidths and the refs as they are and start no
\* measurement pass; the notification changes nothing of the component but its
\* timer handle, the recomputation nothing but visibleCount (with the update that
\* a changed visibleCount requests) and the handle, which it clears.
C16_ResizeNeverRemeasures ==
    [][/\ (Resize \/ TimerFire) =>
            /\ UNCHANGED <<items, renderer, measured, measuredWidths, itemRefs,
                           resizeObserver, changedProperties, hasUpdated, dom>>
            /\ Passes(microtasks' \o updateWaiters') = Passes(microtasks \o updateWaiters)
       /\ Resize => UNCHANGED <<visibleCount, isUpdatePending, microtasks>>
       /\ TimerFire =>
            /\ resizeTimeout' = 0
            /\ visibleCount' = visibleCount => UNCHANGED <<isUpdatePending, microtasks>>]_vars

\* C16 witness: the debounced recomputation has just answered a notification of
\* width 2: the cached widths [1,1] are as they were, visibleCount went to 2 and
\* the update that shows it is queued.
C16_Witness ==
    /\ lastOp = Op("timer", 2, 1)
    /\ measured /\ measuredWidths = <<1, 1>>
    /\ visibleCount = 2
    /\ resizeTimeout = 0
    /\ microtasks = <<"update">>

\* The runs of firstUpdated that have not reached their end: suspended in the
\* initial pass or about to resume after it.
RECURSIVE FirstUpdatedRuns(_)
FirstUpdatedRuns(tasks) ==
    IF tasks = <<>> THEN 0
    ELSE (IF Head(tasks) \in {"measureResumeFirst", "firstUpdatedResume"} THEN 1 ELSE 0)
         + FirstUpdatedRuns(Tail(tasks))

\* The pass firstUpdated started is still suspended in a task list.
RECURSIVE InitialPassPending(_)
InitialPassPending(tasks) ==
    tasks # <<>> /\ (Head(tasks) = "measureResumeFirst" \/ InitialPassPending(Tail(tasks)))

\* firstUpdated has started its pass and that pass has stored its widths.
InitialPassDone == hasUpdated /\ ~InitialPassPending(microtasks \o updateWaiters)

\* C17: firstUpdated runs once (none before the first update, one from then on
\* until it ends, never another), a subscription appears only as that run ends,
\* after the initial pass has completed, and none appears otherwise; the teardown
\* step leaves no subscription.
C17_SubscribedOnceAfterFirstPass ==
    [][/\ FirstUpdatedRuns(microtasks \o updateWaiters) <= (IF hasUpdated THEN 1 ELSE 0)
       /\ FirstUpdatedRuns(microtasks' \o updateWaiters') <= (IF hasUpdated' THEN 1 ELSE 0)
       /\ hasUpdated =>
             FirstUpdatedRuns(microtasks' \o updateWaiters')
                <= FirstUpdatedRuns(microtasks \o updateWaiters)
       /\ (~resizeObserver /\ resizeObserver') =>
             /\ InitialPassDone
             /\ FirstUpdatedRuns(microtasks \o updateWaiters) = 1
             /\ FirstUpdatedRuns(microtasks' \o updateWaiters') = 0
       /\ Disconnect => ~resizeObserver']_vars

\* C17 witness: the subscription exists, created after the initial pass, and has
\* delivered a notification whose recomputation is pending.
C17_Witness ==
    /\ connected /\ resizeObserver
    /\ InitialPassDone
    /\ FirstUpdatedRuns(microtasks \o updateWaiters) = 0
    /\ burst = 1 /\ PendingTimers # {}

\* C18: assigning or removing the renderer leaves measured, measuredWidths,
\* visibleCount, items and the refs as they are and starts no measurement pass,
\* and so does every update after the first that renders a sequence an update has
\* rendered before (items not replaced since): whatever widths are recorded stay
\* in force until items is replaced.
C18_RendererKeepsMeasurements ==
    [][/\ SetRenderer =>
            /\ UNCHANGED <<measured, measuredWidths, visibleCount, items, itemRefs>>
            /\ Passes(microtasks' \o updateWaiters') = Passes(microtasks \o updateWaiters)
       /\ (PerformUpdate /\ hasUpdated /\ domCurrent) =>
            /\ UNCHANGED <<measured, measuredWidths, visibleCount, items>>
            /\ ~isUpdatePending'
            /\ Passes(microtasks' \o updateWaiters') = Passes(microtasks \o updateWaiters)]_vars

\* C18 witness: a renderer has just been supplied to a component that measured
\* its replaced sequence [a,a] while it had none (the placeholder is still what is
\* committed): the widths [0,0] and the count 2 stand, and only an update is queued.
C18_Witness ==
    /\ renderer = "r1" /\ dom = [kind |-> "placeholder", shown |-> <<>>, by |-> "none"]
    /\ itemsVer = 1 /\ domCurrent /\ items = <<"a", "a">>
    /\ measured /\ measuredWidths = <<0, 0>> /\ visibleCount = 2
    /\ microtasks = <<"update">> /\ updateWaiters = <<>>

====
